---------------------------- MODULE Spec2Model ----------------------------
(***************************************************************************)
(* Model of rootfs/api/serializers.py: the field validators of             *)
(* ConfigSerializer and DomainSerializer and the superuser bootstrap of    *)
(* UserSerializer.create.                                                  *)
(*                                                                         *)
(* A Python str is a sequence of one-character strings.  A compiled        *)
(* regular expression is evaluated the way re.match evaluates it: as the   *)
(* set of positions (number of characters consumed) the pattern can reach  *)
(* from position 0.                                                        *)
(***************************************************************************)
EXTENDS Integers, Sequences, FiniteSets, TLC

VARIABLES
    domains,    \* models.Domain rows: the set of stored domain strings
    raw,        \* the string handed to DomainSerializer.validate_domain
    result,     \* what validate_domain answered for raw
    again,      \* what validate_domain answered for its own output
    ns,         \* which ConfigSerializer field validator was called
    data,       \* the dict handed to it: a sequence of <<key, value>> items
    cres,       \* what the field validator answered
    users,      \* auth User rows, in creation order
    pc,         \* per caller: position inside UserSerializer.create
    local       \* per caller: the unsaved User object built by create

vars == <<domains, raw, result, again, ns, data, cres, users, pc, local>>

domainVars == <<domains, raw, result, again>>
configVars == <<ns, data, cres>>
userVars == <<users, pc, local>>

-----------------------------------------------------------------------------
(* Characters *)

NL == "\n"
Lower == {"a","b","c","d","e","f","g","h","i","j","k","l","m",
          "n","o","p","q","r","s","t","u","v","w","x","y","z"}
Upper == {"A","B","C","D","E","F","G","H","I","J","K","L","M",
          "N","O","P","Q","R","S","T","U","V","W","X","Y","Z"}
Digit == {"0","1","2","3","4","5","6","7","8","9"}
Letter == Lower \cup Upper
\* \w of a str pattern, restricted to the ASCII characters of the model
Word == Letter \cup Digit \cup {"_"}

EmptyStr == <<>>

\* the str literals of the source
Dot == <<".">>
Star == <<"*">>
DoubleHyphen == <<"-", "-">>
XipIo == <<"x", "i", "p", ".", "i", "o">>

\* `needle in s` for two strs
Contains(s, needle) ==
    \E i \in 0..(Len(s) - Len(needle)) :
        SubSeq(s, i + 1, i + Len(needle)) = needle

\* s.split('.')
RECURSIVE Split(_)
Split(s) ==
    IF \E i \in 1..Len(s) : s[i] = "."
    THEN LET i == CHOOSE k \in 1..Len(s) :
                      s[k] = "." /\ \A j \in 1..(k - 1) : s[j] # "."
         IN  <<SubSeq(s, 1, i - 1)>> \o Split(SubSeq(s, i + 1, Len(s)))
    ELSE <<s>>

\* str.isdigit(), on the characters of the model
IsDigitStr(s) == Len(s) > 0 /\ \A i \in 1..Len(s) : s[i] \in Digit

\* any(char.isdigit() for char in s)
AnyDigit(s) == \E i \in 1..Len(s) : s[i] \in Digit

-----------------------------------------------------------------------------
(* Regular expressions, as re.match runs them.  P is a set of positions.   *)

\* ^ under re.match: the match starts at position 0
ReStart == {0}

\* [C]{lo,hi}
ReRepeat(C, lo, hi, s, P) ==
    {j \in 0..Len(s) :
        \E i \in P : /\ j - i >= lo
                     /\ j - i <= hi
                     /\ \A k \in (i + 1)..j : s[k] \in C}

\* [C]+
RePlus(C, s, P) == ReRepeat(C, 1, Len(s), s, P)

\* [C]*
ReStar(C, s, P) == ReRepeat(C, 0, Len(s), s, P)

\* a literal; cls is the sequence of its characters' classes (a character
\* and, under re.IGNORECASE, its other case)
ReLit(cls, s, P) ==
    {i + Len(cls) : i \in
        {i \in P : /\ i + Len(cls) <= Len(s)
                   /\ \A k \in 1..Len(cls) : s[i + k] \in cls[k]}}

\* (?!c): the next character is not c
ReNotAhead(c, s, P) == {i \in P : i = Len(s) \/ s[i + 1] # c}

\* (?<!c): the previous character is not c
ReNotBehind(c, s, P) == {i \in P : i = 0 \/ s[i] # c}

\* $ without re.MULTILINE: at the end of the string, or just before a
\* newline that is the last character
ReDollar(s, P) ==
    {i \in P : \/ i = Len(s)
               \/ (i = Len(s) - 1 /\ s[Len(s)] = NL)}

-----------------------------------------------------------------------------
(* The compiled patterns, serializers.py lines 14-19 and 263 *)

\* a letter and its other case, for literals under re.IGNORECASE
BothCases(lo, up) == {lo, up}

\* re.compile(r'^(?P<type>[a-z]+)'): no $, so a prefix match
PROCTYPE_MATCH(s) == RePlus(Lower, s, ReStart) # {}

\* re.compile(r'^(?P<mem>[0-9]+(MB|KB|GB|[BKMG]))$', re.IGNORECASE)
MEMLIMIT_MATCH(s) ==
    LET num == RePlus(Digit, s, ReStart)
        b == BothCases("b", "B")
        k == BothCases("k", "K")
        m == BothCases("m", "M")
        g == BothCases("g", "G")
        unit == ReLit(<<m, b>>, s, num) \cup ReLit(<<k, b>>, s, num)
                \cup ReLit(<<g, b>>, s, num)
                \cup ReLit(<<b \cup k \cup m \cup g>>, s, num)
    IN  ReDollar(s, unit) # {}

\* re.compile(r'^(?P<cpu>[0-9.]+[m]{0,1})$'): the match object, with its
\* named group cpu; matched = FALSE is Python's None
CPUSHARE_MATCH(s) ==
    LET ends == ReDollar(s, ReRepeat({"m"}, 0, 1, s,
                                     RePlus(Digit \cup {"."}, s, ReStart)))
    IN  IF ends = {}
        THEN [matched |-> FALSE, cpu |-> EmptyStr]
        ELSE [matched |-> TRUE,
              cpu |-> SubSeq(s, 1, CHOOSE e \in ends : TRUE)]

\* re.compile(r'^[a-z]+$')
TAGKEY_MATCH(s) == ReDollar(s, RePlus(Lower, s, ReStart)) # {}

\* re.compile(r'^\w+$')
TAGVAL_MATCH(s) == ReDollar(s, RePlus(Word, s, ReStart)) # {}

\* re.compile(r'^[a-z_]+[a-z0-9_]*$', re.IGNORECASE)
CONFIGKEY_MATCH(s) ==
    ReDollar(s, ReStar(Letter \cup Digit \cup {"_"}, s,
                       RePlus(Letter \cup {"_"}, s, ReStart))) # {}

\* bounds of the label pattern and of the hostname
LabelMin == 1
LabelMax == 63
HostMax == 255

\* allowed = re.compile("^(?!-)[a-z0-9-]{1,63}(?<!-)$", re.IGNORECASE)
allowed(s) ==
    ReDollar(s, ReNotBehind("-", s,
        ReRepeat(Letter \cup Digit \cup {"-"}, LabelMin, LabelMax, s,
                 ReNotAhead("-", s, ReStart)))) # {}

-----------------------------------------------------------------------------
(* JSON scalars and str() *)

NoneValue == [kind |-> "none", s |-> EmptyStr, n |-> 0]
StrValue(s) == [kind |-> "str", s |-> s, n |-> 0]
IntValue(n) == [kind |-> "int", s |-> EmptyStr, n |-> n]

DigitChar == <<"0", "1", "2", "3", "4", "5", "6", "7", "8", "9">>

\* str(n) for an int n >= 0
RECURSIVE IntStr(_)
IntStr(n) ==
    IF n < 10 THEN <<DigitChar[n + 1]>>
    ELSE IntStr(n \div 10) \o <<DigitChar[(n % 10) + 1]>>

\* str(value)
PyStr(v) ==
    CASE v.kind = "str" -> v.s
      [] v.kind = "int" -> IntStr(v.n)
      [] v.kind = "none" -> <<"N", "o", "n", "e">>

\* float(s) does not raise ValueError.  Only strings of [0-9.] reach it
\* (CPUSHARE_MATCH has matched): those parse exactly when they hold at
\* least one digit and at most one dot.
FloatParses(s) ==
    /\ \A i \in 1..Len(s) : s[i] \in Digit \cup {"."}
    /\ \E i \in 1..Len(s) : s[i] \in Digit
    /\ Cardinality({i \in 1..Len(s) : s[i] = "."}) <= 1

-----------------------------------------------------------------------------
(* What a field validator answers: the returned value, or the message of    *)
(* the serializers.ValidationError it raised.                               *)

NoAnswer == [st |-> "none", value |-> <<>>, error |-> "", detail |-> <<>>]
Returned(v) == [st |-> "ok", value |-> v, error |-> "", detail |-> <<>>]
Raised(msg) == [st |-> "err", value |-> <<>>, error |-> msg, detail |-> <<>>]
\* a message built with str.format(arg)
RaisedFor(msg, arg) ==
    [st |-> "err", value |-> <<>>, error |-> msg, detail |-> arg]

ErrConfigKey ==
    "Config keys must start with a letter or underscore and only contain [A-z0-9_]"
ErrProcType == "Process types can only contain [a-z]"
ErrMemLimit == "Limit format: <number><unit>, where unit = B, K, M or G"
ErrCpuShares == "CPU shares must be a numeric value"
ErrCpuUnits == "CPU units must be a numeric value"
ErrTagKey == "Tag keys can only contain [a-z]"
ErrTagVal == "Invalid tag data"
ErrTooLong == "Hostname must be 255 characters or less."
ErrWildcardOnly == "Hostname can't only be a wildcard"
ErrHostname == "Hostname does not look valid."
ErrInUse == "The domain {} is already in use by another app"

-----------------------------------------------------------------------------
(* ConfigSerializer: a dict is the sequence of its items in iteration      *)
(* order, each item <<key, value>>.  Each loop answers "" when it runs to  *)
(* its end and the message of the first raise otherwise.                   *)

RECURSIVE ValuesLoop(_, _)
ValuesLoop(items, i) ==
    IF i > Len(items) THEN ""
    ELSE IF ~CONFIGKEY_MATCH(items[i][1]) THEN ErrConfigKey
    ELSE ValuesLoop(items, i + 1)

validate_values(items) ==
    LET e == ValuesLoop(items, 1)
    IN  IF e = "" THEN Returned(items) ELSE Raised(e)

RECURSIVE MemoryLoop(_, _)
MemoryLoop(items, i) ==
    IF i > Len(items) THEN ""
    ELSE LET key == items[i][1]
             value == items[i][2]
         IN  IF value = NoneValue THEN MemoryLoop(items, i + 1)
             ELSE IF ~PROCTYPE_MATCH(key) THEN ErrProcType
             ELSE IF ~MEMLIMIT_MATCH(PyStr(value)) THEN ErrMemLimit
             ELSE MemoryLoop(items, i + 1)

\* a validator that applies the unset items instead of returning them
validate_memory_unsetting(items) ==
    LET e == MemoryLoop(items, 1)
    IN  IF e = ""
        THEN Returned(SelectSeq(items, LAMBDA it : it[2] # NoneValue))
        ELSE Raised(e)

validate_memory(items) ==
    LET e == MemoryLoop(items, 1)
    IN  IF e = "" THEN Returned(items) ELSE Raised(e)

\* the inner loop over shares.groupdict().values(): the one group, cpu
ShareParses(share) ==
    IF share[Len(share)] = "m"
    THEN FloatParses(SubSeq(share, 1, Len(share) - 1))
    ELSE FloatParses(share)

RECURSIVE CpuLoop(_, _)
CpuLoop(items, i) ==
    IF i > Len(items) THEN ""
    ELSE LET key == items[i][1]
             value == items[i][2]
             shares == CPUSHARE_MATCH(PyStr(value))
         IN  IF value = NoneValue THEN CpuLoop(items, i + 1)
             ELSE IF ~PROCTYPE_MATCH(key) THEN ErrProcType
             ELSE IF ~shares.matched THEN ErrCpuShares
             ELSE IF ~ShareParses(shares.cpu) THEN ErrCpuUnits
             ELSE CpuLoop(items, i + 1)

validate_cpu(items) ==
    LET e == CpuLoop(items, 1)
    IN  IF e = "" THEN Returned(items) ELSE Raised(e)

RECURSIVE TagsLoop(_, _)
TagsLoop(items, i) ==
    IF i > Len(items) THEN ""
    ELSE LET key == items[i][1]
             value == items[i][2]
         IN  IF value = NoneValue THEN TagsLoop(items, i + 1)
             ELSE IF ~TAGKEY_MATCH(key) THEN ErrTagKey
             ELSE IF ~TAGVAL_MATCH(PyStr(value)) THEN ErrTagVal
             ELSE TagsLoop(items, i + 1)

validate_tags(items) ==
    LET e == TagsLoop(items, 1)
    IN  IF e = "" THEN Returned(items) ELSE Raised(e)

-----------------------------------------------------------------------------
(* DomainSerializer.validate_domain *)

\* value[:-1] when value[-1:] == "."
StripDot(value) ==
    IF Len(value) > 0 /\ value[Len(value)] = "."
    THEN SubSeq(value, 1, Len(value) - 1)
    ELSE value

\* a pop of every wildcard label, not only of the first
PopAnyWildcard(labels) == SelectSeq(labels, LAMBDA l : l # Star)

\* labels after `if labels[0] == '*': labels.pop(0)`
PopWildcard(labels) ==
    IF labels[1] = Star THEN Tail(labels) ELSE labels

\* the condition of the raise inside `for label in labels`
LabelInvalid(label, labels) ==
    \/ ~allowed(label)
    \/ Contains(label, DoubleHyphen)
    \/ IsDigitStr(label)
    \/ (Len(labels) = 1 /\ AnyDigit(label))

validate_domain(input, existing) ==
    IF Len(input) > HostMax THEN Raised(ErrTooLong)
    ELSE LET value == StripDot(input)
             split == Split(value)
             labels == PopWildcard(split)
         IN  IF Contains(value, XipIo) THEN Returned(value)
             ELSE IF split[1] = Star /\ Len(labels) = 0
                  THEN Raised(ErrWildcardOnly)
             ELSE IF \E i \in 1..Len(labels) : LabelInvalid(labels[i], labels)
                  THEN Raised(ErrHostname)
             ELSE IF value \in existing THEN RaisedFor(ErrInUse, value)
             ELSE Returned(value)

-----------------------------------------------------------------------------
(* UserSerializer.create and AdminUserSerializer *)

Callers == {"c1", "c2", "c3"}

\* User(email=..., username=..., last_login=now, date_joined=now,
\* is_active=True); is_superuser and is_staff default to False
NewUser == [is_superuser |-> FALSE, is_staff |-> FALSE, is_active |-> TRUE]

\* a count of the rows in place of the query for a superuser
NoUserYet(rows) == Len(rows) = 0

\* not User.objects.filter(is_superuser=True).exists()
NoSuperuser(rows) == ~\E i \in 1..Len(rows) : rows[i].is_superuser

\* a save that asks again whether a superuser exists
SavedRowRechecked(rows, obj) ==
    IF \E i \in 1..Len(rows) : rows[i].is_superuser THEN NewUser ELSE obj

\* the row user.save() writes: the object as create built it
SavedRow(rows, obj) == obj

-----------------------------------------------------------------------------
(* Bounds and inputs *)

MaxTokens == 4
LongLabelLen == 64
LongHostLen == 256
MaxEntries == 2
MaxUsers == 5

RECURSIVE Concats(_, _)
Concats(T, n) ==
    IF n = 0 THEN {<<>>}
    ELSE LET prev == Concats(T, n - 1)
         IN  prev \cup {p \o tok : p \in prev, tok \in T}

\* a run of letters longer than a label may be, and one longer than a
\* hostname may be
LongLabel == [i \in 1..LongLabelLen |-> "a"]
LongHost == [i \in 1..LongHostLen |-> "a"]

DomainTokens ==
    {<<"a">>, <<"1">>, <<"-">>, Dot, Star, XipIo, <<NL>>, LongLabel, LongHost}

\* the submitted strings: at most n tokens each
DomainInputs(n) == Concats(DomainTokens, n)

\* the domains other apps may already hold
Registered ==
    {<<"a">>, <<"a", ".", "a">>, <<"*", ".", "a">>, XipIo}

ConfigKeys ==
    { <<"w", "e", "b">>,
      <<"W", "e", "b", "1">>,
      <<"a", "-", "b">>,
      <<"1", "a", "b", "c">>,
      <<"_", "a">>,
      <<"a", NL>> }

ConfigValues ==
    { NoneValue,
      IntValue(512),
      StrValue(<<"5", "1", "2", "M", "B">>),
      StrValue(<<"5", "0", "0", "m">>),
      StrValue(<<"0", ".", "5">>),
      StrValue(<<"1", ".", "2", ".", "3">>),
      StrValue(<<"a", "b", "c">>),
      StrValue(<<"1", "m", NL>>) }

ConfigItems == ConfigKeys \X ConfigValues

\* the dicts of at most n items: no key twice
RECURSIVE Dicts(_)
Dicts(n) ==
    IF n = 0 THEN {<<>>}
    ELSE LET prev == Dicts(n - 1)
         IN  prev \cup UNION
             { {Append(d, it) :
                  it \in {c \in ConfigItems :
                             \A i \in 1..Len(d) : d[i][1] # c[1]}} :
               d \in {x \in prev : Len(x) = n - 1} }

-----------------------------------------------------------------------------
(* State machine *)

DomainIdle ==
    /\ domains = {}
    /\ raw = EmptyStr
    /\ result = NoAnswer
    /\ again = NoAnswer

ConfigIdle ==
    /\ ns = "none"
    /\ data = <<>>
    /\ cres = NoAnswer

UsersIdle ==
    /\ users = <<>>
    /\ pc = [p \in Callers |-> "idle"]
    /\ local = [p \in Callers |-> NewUser]

InitDomain ==
    /\ domains \in SUBSET Registered
    /\ raw \in DomainInputs(MaxTokens)
    /\ result = NoAnswer
    /\ again = NoAnswer
    /\ ConfigIdle
    /\ UsersIdle

\* the serializer runs validate_domain on the submitted string
ValidateDomain ==
    /\ result.st = "none"
    /\ result' = validate_domain(raw, domains)
    /\ UNCHANGED <<domains, raw, again>>
    /\ UNCHANGED <<configVars, userVars>>

\* the string validate_domain returned is submitted again
Revalidate ==
    /\ result.st = "ok"
    /\ again.st = "none"
    /\ again' = validate_domain(result.value, domains)
    /\ UNCHANGED <<domains, raw, result>>
    /\ UNCHANGED <<configVars, userVars>>

NextDomain == ValidateDomain \/ Revalidate

SpecDomain == InitDomain /\ [][NextDomain]_vars

InitConfig ==
    /\ data \in Dicts(MaxEntries)
    /\ ns = "none"
    /\ cres = NoAnswer
    /\ DomainIdle
    /\ UsersIdle

ValidateValues ==
    /\ cres.st = "none"
    /\ ns' = "values"
    /\ cres' = validate_values(data)
    /\ UNCHANGED <<data, domainVars, userVars>>

ValidateMemory ==
    /\ cres.st = "none"
    /\ ns' = "memory"
    /\ cres' = validate_memory(data)
    /\ UNCHANGED <<data, domainVars, userVars>>

ValidateCpu ==
    /\ cres.st = "none"
    /\ ns' = "cpu"
    /\ cres' = validate_cpu(data)
    /\ UNCHANGED <<data, domainVars, userVars>>

ValidateTags ==
    /\ cres.st = "none"
    /\ ns' = "tags"
    /\ cres' = validate_tags(data)
    /\ UNCHANGED <<data, domainVars, userVars>>

NextConfig == ValidateValues \/ ValidateMemory \/ ValidateCpu \/ ValidateTags

SpecConfig == InitConfig /\ [][NextConfig]_vars

InitUsers ==
    /\ UsersIdle
    /\ DomainIdle
    /\ ConfigIdle

InFlight == {q \in Callers : pc[q] = "checked"}

\* create, lines 60-78: build the User, then ask whether a superuser exists
CreateCheck(p) ==
    /\ pc[p] = "idle"
    /\ Len(users) + Cardinality(InFlight) < MaxUsers
    /\ local' = [local EXCEPT ![p] =
                    IF NoSuperuser(users)
                    THEN [NewUser EXCEPT !.is_superuser = TRUE,
                                         !.is_staff = TRUE]
                    ELSE NewUser]
    /\ pc' = [pc EXCEPT ![p] = "checked"]
    /\ UNCHANGED <<users, domainVars, configVars>>

\* create, lines 80-81: user.save()
CreateSave(p) ==
    /\ pc[p] = "checked"
    /\ users' = Append(users, SavedRow(users, local[p]))
    /\ pc' = [pc EXCEPT ![p] = "idle"]
    /\ local' = [local EXCEPT ![p] = NewUser]
    /\ UNCHANGED <<domainVars, configVars>>

\* AdminUserSerializer: is_superuser is its one writable field
AdminUpdate(i, b) ==
    /\ i \in 1..Len(users)
    /\ users[i].is_superuser # b
    /\ users' = [users EXCEPT ![i].is_superuser = b]
    /\ UNCHANGED <<pc, local, domainVars, configVars>>

\* calls to create overlap freely; no admin changes a row meanwhile
ConcCreateCheck == \E p \in Callers : CreateCheck(p)
ConcCreateSave == \E p \in Callers : CreateSave(p)

NextConc == ConcCreateCheck \/ ConcCreateSave

SpecConc == InitUsers /\ [][NextConc]_vars

\* calls run one after another: nothing starts while a call is in flight
SeqCreateCheck == InFlight = {} /\ \E p \in Callers : CreateCheck(p)
SeqCreateSave == \E p \in Callers : CreateSave(p)
SeqAdminUpdate ==
    InFlight = {} /\ \E i \in 1..MaxUsers, b \in BOOLEAN : AdminUpdate(i, b)

NextSeq == SeqCreateCheck \/ SeqCreateSave \/ SeqAdminUpdate

SpecSeq == InitUsers /\ [][NextSeq]_vars

-----------------------------------------------------------------------------
(* The grammars as the specification words them, for stating the claims    *)

\* an RFC-1123 style label: 1 to 63 of [A-Za-z0-9-], no hyphen at either end
IsHostnameLabel(l) ==
    /\ Len(l) >= 1
    /\ Len(l) <= 63
    /\ \A i \in 1..Len(l) : l[i] \in Letter \cup Digit \cup {"-"}
    /\ l[1] # "-"
    /\ l[Len(l)] # "-"

\* the labels of a domain, one leading wildcard label removed
CheckedLabels(v) ==
    LET ls == Split(v) IN IF ls[1] = Star THEN Tail(ls) ELSE ls

WellFormedDomain(v) ==
    LET ls == CheckedLabels(v)
    IN  /\ Len(ls) >= 1
        /\ \A i \in 1..Len(ls) :
              /\ IsHostnameLabel(ls[i])
              /\ ~Contains(ls[i], DoubleHyphen)
              /\ ~IsDigitStr(ls[i])
        /\ (Len(ls) = 1 => ~AnyDigit(ls[1]))

\* [A-Za-z_][A-Za-z0-9_]*
IsConfigKey(k) ==
    /\ Len(k) >= 1
    /\ k[1] \in Letter \cup {"_"}
    /\ \A i \in 2..Len(k) : k[i] \in Letter \cup Digit \cup {"_"}

\* begins with at least one lowercase letter
IsProcessType(k) == Len(k) >= 1 /\ k[1] \in Lower

\* lowercase letters only
IsTagKey(k) == Len(k) >= 1 /\ \A i \in 1..Len(k) : k[i] \in Lower

MemoryUnits ==
    { <<"B">>, <<"K">>, <<"M">>, <<"G">>,
      <<"K", "B">>, <<"M", "B">>, <<"G", "B">> }

UpperOf(c) ==
    CASE c = "b" -> "B" [] c = "k" -> "K" [] c = "m" -> "M" [] c = "g" -> "G"
      [] OTHER -> c

\* <digits><unit>, unit in {B,K,M,G,KB,MB,GB} in either case
IsMemoryLimit(s) ==
    \E n \in 1..(Len(s) - 1) :
        /\ \A i \in 1..n : s[i] \in Digit
        /\ [i \in 1..(Len(s) - n) |-> UpperOf(s[n + i])] \in MemoryUnits

\* a decimal number: digits with at most one dot among them
IsDecimal(s) ==
    /\ \A i \in 1..Len(s) : s[i] \in Digit \cup {"."}
    /\ \E i \in 1..Len(s) : s[i] \in Digit
    /\ \A i, j \in 1..Len(s) : (s[i] = "." /\ s[j] = ".") => i = j

\* the value with one trailing 'm' removed, if present
NumericPortion(s) ==
    IF Len(s) > 0 /\ s[Len(s)] = "m" THEN SubSeq(s, 1, Len(s) - 1) ELSE s

KeyGrammar(field, k) ==
    CASE field = "values" -> IsConfigKey(k)
      [] field = "memory" -> IsProcessType(k)
      [] field = "cpu" -> IsProcessType(k)
      [] field = "tags" -> IsTagKey(k)

\* the answer of the validator of a field
Validator(field, items) ==
    CASE field = "values" -> validate_values(items)
      [] field = "memory" -> validate_memory(items)
      [] field = "cpu" -> validate_cpu(items)
      [] field = "tags" -> validate_tags(items)

IsSet(items, i) == items[i][2] # NoneValue

-----------------------------------------------------------------------------
(* Claims *)

\* C1: whatever validate_domain returns is syntactically well-formed (one
\* leading '*' label aside, every label is a hostname label, has no '--',
\* is not all digits, and a lone label has no digit) and is not among the
\* existing domains.
C1_ReturnedIsWellFormedAndUnused ==
    result.st = "ok" =>
        /\ WellFormedDomain(result.value)
        /\ result.value \notin domains

\* C2: validate_domain is idempotent on its output: a returned value v that
\* is not among the existing domains is returned unchanged when validated
\* again.
C2_RevalidationIsFixedPoint ==
    (result.st = "ok" /\ again.st # "none" /\ result.value \notin domains)
        => again = Returned(result.value)

\* C3: every dict validate_memory, validate_cpu or validate_tags accepts has
\* every key in the key grammar of its field, the keys of unset items
\* included.
C3_AcceptedKeysInGrammar ==
    (ns \in {"memory", "cpu", "tags"} /\ cres.st = "ok")
        => \A i \in 1..Len(data) : KeyGrammar(ns, data[i][1])

\* C4: with create calls run one after another from a state without users,
\* each created account is a superuser and staff exactly when no superuser
\* exists at the moment of its creation; so the first account is promoted
\* and a later one is not while a superuser exists.
C4_PromotedIffNoSuperuserNow ==
    [][\A p \in Callers :
          (pc[p] = "checked" /\ pc'[p] = "idle") =>
              LET new == users'[Len(users')]
              IN  /\ Len(users') = Len(users) + 1
                  /\ new.is_superuser =
                        (\A i \in 1..Len(users) : ~users[i].is_superuser)
                  /\ new.is_staff = new.is_superuser
                  /\ (Len(users) = 0 => new.is_superuser)]_vars

\* C4 witness: the first account was promoted and later demoted, the second
\* was promoted because no superuser was left, the third was not promoted.
C4_Witness ==
    /\ Len(users) = 3
    /\ users[1].is_staff /\ ~users[1].is_superuser
    /\ users[2].is_staff /\ users[2].is_superuser
    /\ ~users[3].is_staff /\ ~users[3].is_superuser
    /\ InFlight = {}

\* the first offending item of a memory dict in iteration order, 0 if none
MemoryOffends(items, i) ==
    IsSet(items, i) /\ ~(IsProcessType(items[i][1])
                          /\ IsMemoryLimit(PyStr(items[i][2])))

FirstMemoryOffender(items) ==
    IF \E i \in 1..Len(items) : MemoryOffends(items, i)
    THEN CHOOSE i \in 1..Len(items) :
            /\ MemoryOffends(items, i)
            /\ \A j \in 1..(i - 1) : ~MemoryOffends(items, j)
    ELSE 0

\* C5: validate_memory accepts exactly the dicts whose set items all have a
\* key beginning with a lowercase letter and a value of the form
\* <digits><unit>; otherwise the first offending item decides the error:
\* the process-type error for a bad key, the memory-limit error for a good
\* key with a bad value.
C5_MemoryAcceptsExactlyGrammar ==
    (ns = "memory" /\ cres.st # "none") =>
        LET f == FirstMemoryOffender(data)
        IN  IF f = 0 THEN cres.st = "ok"
            ELSE /\ cres.st = "err"
                 /\ cres.error = IF IsProcessType(data[f][1])
                                  THEN ErrMemLimit ELSE ErrProcType

\* C6: every set value validate_cpu accepts has a numeric portion (the value
\* less one trailing 'm') that is a decimal number; a lone item with a good
\* key and any other value is rejected with the CPU-share error.
C6_CpuAcceptedIsNumeric ==
    (ns = "cpu" /\ cres.st # "none") =>
        /\ cres.st = "ok" =>
              \A i \in 1..Len(data) :
                  IsSet(data, i) => IsDecimal(NumericPortion(PyStr(data[i][2])))
        /\ ( /\ Len(data) = 1
              /\ IsSet(data, 1)
              /\ IsProcessType(data[1][1])
              /\ ~IsDecimal(NumericPortion(PyStr(data[1][2]))) )
              => (cres.st = "err" /\ cres.error \in {ErrCpuShares, ErrCpuUnits})

\* C7: validate_values accepts exactly the dicts whose keys all are a letter
\* or underscore followed by letters, digits or underscores, whatever the
\* values.
C7_ValuesAcceptsExactlyGrammar ==
    (ns = "values" /\ cres.st # "none") =>
        (cres.st = "ok" <=> \A i \in 1..Len(data) : IsConfigKey(data[i][1]))

\* C8: each field validator either rejects, returning no dict, or returns
\* the submitted dict item for item, unset values still unset; and a dict
\* is accepted only if each of its items is accepted on its own.
C8_AllOrNothing ==
    cres.st # "none" =>
        /\ cres.st = "err" => cres.value = <<>>
        /\ cres.st = "ok" =>
              /\ cres.value = data
              /\ \A i \in 1..Len(data) :
                    Validator(ns, <<data[i]>>).st = "ok"

\* C8 witness: an accepted dict of two items, one unset and one set.
C8_Witness ==
    /\ cres.st = "ok"
    /\ Len(data) = 2
    /\ ~IsSet(data, 1)
    /\ IsSet(data, 2)
    /\ cres.value[1][2] = NoneValue

\* C9: create saves the object as it was built at the existence check, so
\* two overlapping calls that both checked before either saved both store
\* a promoted account.
C9_SaveKeepsStaleDecision ==
    [][\A p \in Callers :
          (pc[p] = "checked" /\ pc'[p] = "idle") =>
              users' = Append(users, local[p])]_vars

\* C9 witness: two stored accounts, both promoted by create.
C9_Witness ==
    \E i, j \in 1..Len(users) :
        /\ i # j
        /\ users[i].is_staff /\ users[i].is_superuser
        /\ users[j].is_staff /\ users[j].is_superuser

\* the wildcard part of C10, for the inputs in `scope`
WildcardRule(scope) ==
    (result.st # "none" /\ scope /\ ~Contains(raw, XipIo)) =>
        LET value == StripDot(raw)
            ls == Split(value)
        IN  /\ ls = <<Star>> => result = Raised(ErrWildcardOnly)
            /\ (\E i \in 2..Len(ls) : ls[i] = Star)
                  => result = Raised(ErrHostname)
            /\ (ls[1] = Star /\ result.st = "ok")
                  => (result.value = value /\ value \notin domains)
            /\ (ls[1] = Star /\ result.error = ErrInUse)
                  => (result.detail = value /\ value \in domains)

\* C10 as stated: for every input without 'xip.io', a lone '*' label is the
\* wildcard-only error, a '*' label after the first is the invalid-hostname
\* error, and an accepted wildcard is returned, and checked for uniqueness,
\* with its '*.' in place.
C10_WildcardOnlyFirst == WildcardRule(TRUE)

\* C10 amended: the same, for inputs of at most 255 characters.
C10_WildcardOnlyFirstWithinLength == WildcardRule(Len(raw) <= HostMax)

\* C10 witness: '*.a' accepted and returned as '*.a' while 'a' is taken.
C10_Witness ==
    /\ raw = <<"*", ".", "a">>
    /\ <<"a">> \in domains
    /\ result = Returned(<<"*", ".", "a">>)

=============================================================================
